---- MODULE Spec2Model ----
(***************************************************************************)
(* Model of backend/main.py: the authentication bootstrap that runs at     *)
(* import time and the POST /analyze handler analyze_change, one step per  *)
(* statement group of the handler, with the remote Earth Engine service    *)
(* as a nondeterministic environment.  A second specification,             *)
(* SpecChange, evaluates the change-raster expression of lines 107-116     *)
(* pixel by pixel.                                                         *)
(***************************************************************************)
EXTENDS Integers, Sequences, FiniteSets, TLC

\* ------------------------------------------------------------------ bounds
\* number of requests the server handles concurrently
NReq == 2
\* number of pixels of the region of interest
NPix == 2

Req == 1..NReq
Pixels == 1..NPix
Classes == {1, 2, 3}

\* ------------------------------------------------------- program constants
\* scale=10 of reduceRegion and the 10 of pixel_area_sqkm = (10 * 10) / 1e6
PixelSide == 10
\* the threshold passed to classify_water
Threshold == 0

\* -------------------------------------------------------------- messages
MsgInvalidGeometry == "Invalid GeoJSON geometry."
MsgNotInitialized == "Earth Engine client library not initialized."
MsgNoneHasNoGet == "'NoneType' object has no attribute 'get'"
MsgValidation == "field required or wrong type"
RemoteErrors == {"Computation timed out.", "Too many concurrent aggregations."}
SuggestionT1 == "Suggestion: Try a different month or expand the date range."
SuggestionT2 == "Suggestion: Monsoon clouds might be blocking the view. Try 'November' or 'April'."

VARIABLES
  proc,       \* "starting" | "serving" | "crashed": the process
  auth,       \* "none" | "service_account" | "default" | "failed"
  pc,         \* pc[r]: position of request r
  body,       \* body[r]: the request body as received
  img_t1,     \* img_t1[r]: "unset" | "None" | "composite"
  img_t2,     \* img_t2[r]
  water,      \* water[r]: TRUE once classify_water ran on both composites
  change,     \* change[r]: TRUE once the change raster expression is built
  map_id,     \* map_id[r]: "" or the tile URL format returned by getMapId
  stats,      \* stats[r]: the result of reduceRegion(...).getInfo()
  response,   \* response[r]: the HTTP response of request r
  calls,      \* calls[r]: the remote calls r issued, in order (history)
  answers,    \* answers[r]: what the library answered to r, in order (history)
  \* the change raster of SpecChange
  ndwi1, ndwi2,     \* per-pixel NDWI of the two composites
  water_t1, water_t2, \* per-pixel water masks
  raster,           \* per-pixel value of the change image
  order,            \* the order in which the three rewrites are applied
  stage             \* 0: composites, 1: classified, 2..4: rewrites applied, 5: self-masked

reqVars == <<pc, body, img_t1, img_t2, water, change, map_id, stats, response, calls, answers>>
pixVars == <<ndwi1, ndwi2, water_t1, water_t2, raster, order, stage>>
vars == <<proc, auth, reqVars, pixVars>>

\* ------------------------------------------------------------ request data
\* geojson: a dict ee.Geometry accepts, a dict it rejects, or not a dict at all;
\* dates: the four date fields are strings, or one is missing / not a string
Bodies == [geojson : {"Polygon", "Malformed", "NotADict"}, dates : {"strings", "missing"}]
NoBody == [geojson |-> "", dates |-> ""]

\* AnalysisRequest: pydantic accepts the body iff geojson is a dict and the dates are strings
AnalysisRequest(b) == b.geojson \in {"Polygon", "Malformed"} /\ b.dates = "strings"

\* ee.Geometry(request.geojson) raises EEException on a dict that is no GeoJSON geometry
GeometryRejectsNever(b) == FALSE
GeometryRejects(b) == b.geojson = "Malformed"

\* a Python dict with string keys, as a set of <<key, value>> pairs
DictHas(d, k) == \E p \in d : p[1] = k
DictGet(d, k, default) == IF DictHas(d, k) THEN (CHOOSE p \in d : p[1] = k)[2] ELSE default

\* the key of a class in the histogram: '1', '2', '3'
ClassKey(c) == CASE c = 1 -> "1" [] c = 2 -> "2" [] c = 3 -> "3"

\* the frequency histograms a raster of at most NPix unmasked pixels can have:
\* a class with no pixel has no key
Histograms == { {<<ClassKey(c), f[c]>> : c \in {k \in Classes : f[k] > 0}} :
                f \in {g \in [Classes -> 0..NPix] : g[1] + g[2] + g[3] <= NPix} }

\* the value of stats: has_constant says whether the key 'constant' is there,
\* is_none whether its value is None, hist its value otherwise
NoStats == [has_constant |-> FALSE, is_none |-> FALSE, hist |-> {}]
StatsResults == {NoStats}
                \cup {[has_constant |-> TRUE, is_none |-> TRUE, hist |-> {}]}
                \cup {[has_constant |-> TRUE, is_none |-> FALSE, hist |-> h] : h \in Histograms}

\* one answer of the library to a request
Answer(call, kind, count, msg, st) == [call |-> call, kind |-> kind, count |-> count, msg |-> msg, stats |-> st]
Returned(call) == Answer(call, "ok", 0, "", NoStats)
Raised(call, msg) == Answer(call, "raise", 0, msg, NoStats)

\* s2.size().getInfo() answers a count; the code only tests count == 0
ImageCounts == {0, 1}
\* map_id['tile_fetcher'].url_format
TileUrl == "https://earthengine.googleapis.com/v1/{mapid}/tiles/{z}/{x}/{y}"

\* the messages a remote call can fail with: without credentials every call fails
ErrorsNow == IF auth = "failed" THEN {MsgNotInitialized} ELSE RemoteErrors

\* ---------------------------------------------------------------- responses
NoStatsOut == [gain_sqkm_e6 |-> 0, loss_sqkm_e6 |-> 0, persistent_sqkm_e6 |-> 0]
NoResponse == [status |-> 0, period |-> 0, detail |-> "", tile_url |-> "", stats |-> NoStatsOut]
Http(status, period, detail) == [status |-> status, period |-> period, detail |-> detail, tile_url |-> "", stats |-> NoStatsOut]

\* raise HTTPException(status_code=404, ...) for Period 1 and Period 2: period is
\* the "Period N (start to end)" part of the detail, detail its suggestion text
NoDataT1 == Http(404, 1, SuggestionT1)
NoDataT2 == Http(404, 2, SuggestionT2)

\* an exception in flight: an HTTPException carries its response, any other its message
HttpExc(resp) == [http |-> TRUE, resp |-> resp, msg |-> ""]
OtherExc(msg) == [http |-> FALSE, resp |-> NoResponse, msg |-> msg]

\* the two except clauses of analyze_change
CaughtAll(exc) == Http(500, 0, IF exc.http THEN exc.resp.detail ELSE exc.msg)
Caught(exc) == IF exc.http THEN exc.resp ELSE Http(500, 0, exc.msg)

\* pixel_area_sqkm = (10 * 10) / 1e6, kept as the numerator over 1e6
PixelAreaE6 == PixelSide * PixelSide
\* histogram.get(k, 0) * pixel_area_sqkm, in 1e-6 km^2
AreaE6(histogram, k) == DictGet(histogram, k, 0) * PixelAreaE6

\* ------------------------------------------------------------------- Init
Init ==
  /\ proc = "starting"
  /\ auth = "none"
  /\ pc = [r \in Req |-> "IDLE"]
  /\ body = [r \in Req |-> NoBody]
  /\ img_t1 = [r \in Req |-> "unset"]
  /\ img_t2 = [r \in Req |-> "unset"]
  /\ water = [r \in Req |-> FALSE]
  /\ change = [r \in Req |-> FALSE]
  /\ map_id = [r \in Req |-> ""]
  /\ stats = [r \in Req |-> NoStats]
  /\ response = [r \in Req |-> NoResponse]
  /\ calls = [r \in Req |-> <<>>]
  /\ answers = [r \in Req |-> <<>>]
  /\ ndwi1 = [p \in Pixels |-> 0]
  /\ ndwi2 = [p \in Pixels |-> 0]
  /\ water_t1 = [p \in Pixels |-> 0]
  /\ water_t2 = [p \in Pixels |-> 0]
  /\ raster = [p \in Pixels |-> 0]
  /\ order = <<1, 2, 3>>
  /\ stage = 0

\* ------------------------------------------------- authentication bootstrap
\* except Exception as e: logger.error(...) -- the module goes on to app = FastAPI()
AfterAuthFailureCrash == "crashed"
AfterAuthFailure == "serving"

\* lines 15-30: configured = service_account and key_file and os.path.exists(key_file);
\* ok = the ee.Initialize call of the chosen branch returns
Startup ==
  /\ proc = "starting"
  /\ \E configured \in BOOLEAN, ok \in BOOLEAN :
       /\ auth' = IF ~ok THEN "failed" ELSE IF configured THEN "service_account" ELSE "default"
       /\ proc' = IF ok THEN "serving" ELSE AfterAuthFailure
  /\ UNCHANGED <<reqVars, pixVars>>

\* ------------------------------------------------------------ the handler
\* the request ends with response resp
Finish(r, resp) ==
  /\ response' = [response EXCEPT ![r] = resp]
  /\ pc' = [pc EXCEPT ![r] = "DONE"]

\* an exception raised inside the try block of analyze_change
Fail(r, exc) == Finish(r, Caught(exc))

\* a client sends a request
Receive(r) ==
  /\ proc = "serving"
  /\ pc[r] = "IDLE"
  /\ \E b \in Bodies : body' = [body EXCEPT ![r] = b]
  /\ pc' = [pc EXCEPT ![r] = "RECEIVED"]
  /\ UNCHANGED <<proc, auth, img_t1, img_t2, water, change, map_id, stats, response, calls, answers, pixVars>>

\* FastAPI parses the body into AnalysisRequest before calling the handler
Validate(r) ==
  /\ pc[r] = "RECEIVED"
  /\ IF AnalysisRequest(body[r])
       THEN /\ pc' = [pc EXCEPT ![r] = "GEOMETRY"]
            /\ UNCHANGED response
       ELSE Finish(r, Http(422, 0, MsgValidation))
  /\ UNCHANGED <<proc, auth, body, img_t1, img_t2, water, change, map_id, stats, calls, answers, pixVars>>

\* roi = ee.Geometry(request.geojson): the constructor first initializes the
\* client API, which fails or not when ee.Initialize failed, then validates the dict
BuildGeometry(r) ==
  /\ pc[r] = "GEOMETRY"
  /\ \E uninit \in (IF auth = "failed" THEN BOOLEAN ELSE {FALSE}) :
       LET msg == IF uninit THEN MsgNotInitialized
                  ELSE IF GeometryRejects(body[r]) THEN MsgInvalidGeometry ELSE ""
       IN IF msg # ""
            THEN /\ Fail(r, OtherExc(msg))
                 /\ answers' = [answers EXCEPT ![r] = Append(@, Raised("Geometry", msg))]
            ELSE /\ pc' = [pc EXCEPT ![r] = "FETCH_T1"]
                 /\ answers' = [answers EXCEPT ![r] = Append(@, Returned("Geometry"))]
                 /\ UNCHANGED response
  /\ UNCHANGED <<proc, auth, body, img_t1, img_t2, water, change, map_id, stats, calls, pixVars>>

\* what s2.size().getInfo() can answer
SizeAnswers(call) ==
  {Raised(call, m) : m \in ErrorsNow}
  \cup (IF auth = "failed" THEN {} ELSE {Answer(call, "ok", n, "", NoStats) : n \in ImageCounts})

\* get_sentinel_mosaic: the except clause logs and re-raises; count == 0 returns None
FetchOutcomeSwallow(a) == [raised |-> FALSE, img |-> IF a.kind = "raise" \/ a.count = 0 THEN "None" ELSE "composite"]
FetchOutcome(a) == [raised |-> a.kind = "raise", img |-> IF a.kind # "raise" /\ a.count = 0 THEN "None" ELSE "composite"]

\* img_t1 = get_sentinel_mosaic(roi, request.date1_start, request.date1_end)
FetchT1(r) ==
  /\ pc[r] = "FETCH_T1"
  /\ calls' = [calls EXCEPT ![r] = Append(@, "size_t1")]
  /\ \E a \in SizeAnswers("size_t1") :
       /\ answers' = [answers EXCEPT ![r] = Append(@, a)]
       /\ IF FetchOutcome(a).raised
            THEN Fail(r, OtherExc(a.msg)) /\ UNCHANGED img_t1
            ELSE /\ img_t1' = [img_t1 EXCEPT ![r] = FetchOutcome(a).img]
                 /\ pc' = [pc EXCEPT ![r] = "FETCH_T2"]
                 /\ UNCHANGED response
  /\ UNCHANGED <<proc, auth, body, img_t2, water, change, map_id, stats, pixVars>>

\* img_t2 = get_sentinel_mosaic(roi, request.date2_start, request.date2_end)
FetchT2(r) ==
  /\ pc[r] = "FETCH_T2"
  /\ calls' = [calls EXCEPT ![r] = Append(@, "size_t2")]
  /\ \E a \in SizeAnswers("size_t2") :
       /\ answers' = [answers EXCEPT ![r] = Append(@, a)]
       /\ IF FetchOutcome(a).raised
            THEN Fail(r, OtherExc(a.msg)) /\ UNCHANGED img_t2
            ELSE /\ img_t2' = [img_t2 EXCEPT ![r] = FetchOutcome(a).img]
                 /\ pc' = [pc EXCEPT ![r] = "CHECK"]
                 /\ UNCHANGED response
  /\ UNCHANGED <<proc, auth, body, img_t1, water, change, map_id, stats, pixVars>>

\* the two "is None" tests, after both fetches
CheckNoData(r) ==
  /\ pc[r] = "CHECK"
  /\ IF img_t1[r] = "None" THEN Fail(r, HttpExc(NoDataT1))
     ELSE IF img_t2[r] = "None" THEN Fail(r, HttpExc(NoDataT2))
     ELSE pc' = [pc EXCEPT ![r] = "CLASSIFY"] /\ UNCHANGED response
  /\ UNCHANGED <<proc, auth, body, img_t1, img_t2, water, change, map_id, stats, calls, answers, pixVars>>

\* water_t1 = classify_water(img_t1, 0.0); water_t2 = classify_water(img_t2, 0.0)
Classify(r) ==
  /\ pc[r] = "CLASSIFY"
  /\ water' = [water EXCEPT ![r] = TRUE]
  /\ pc' = [pc EXCEPT ![r] = "DETECT_CHANGE"]
  /\ UNCHANGED <<proc, auth, body, img_t1, img_t2, change, map_id, stats, response, calls, answers, pixVars>>

\* change = ee.Image(0).where(...).where(...).where(...).selfMask()
DetectChange(r) ==
  /\ pc[r] = "DETECT_CHANGE"
  /\ change' = [change EXCEPT ![r] = TRUE]
  /\ pc' = [pc EXCEPT ![r] = "RENDER"]
  /\ UNCHANGED <<proc, auth, body, img_t1, img_t2, water, map_id, stats, response, calls, answers, pixVars>>

\* map_id = change.getMapId(vis_params)
Render(r) ==
  /\ pc[r] = "RENDER"
  /\ calls' = [calls EXCEPT ![r] = Append(@, "getMapId")]
  /\ \E a \in {Raised("getMapId", m) : m \in ErrorsNow}
              \cup (IF auth = "failed" THEN {} ELSE {Returned("getMapId")}) :
       /\ answers' = [answers EXCEPT ![r] = Append(@, a)]
       /\ IF a.kind = "raise"
            THEN Fail(r, OtherExc(a.msg)) /\ UNCHANGED map_id
            ELSE /\ map_id' = [map_id EXCEPT ![r] = TileUrl]
                 /\ pc' = [pc EXCEPT ![r] = "STATS"]
                 /\ UNCHANGED response
  /\ UNCHANGED <<proc, auth, body, img_t1, img_t2, water, change, stats, pixVars>>

\* stats = change.reduceRegion(...).getInfo()
Stats(r) ==
  /\ pc[r] = "STATS"
  /\ calls' = [calls EXCEPT ![r] = Append(@, "reduceRegion")]
  /\ \E a \in {Raised("reduceRegion", m) : m \in ErrorsNow}
              \cup (IF auth = "failed" THEN {}
                    ELSE {Answer("reduceRegion", "ok", 0, "", st) : st \in StatsResults}) :
       /\ answers' = [answers EXCEPT ![r] = Append(@, a)]
       /\ IF a.kind = "raise"
            THEN Fail(r, OtherExc(a.msg)) /\ UNCHANGED stats
            ELSE /\ stats' = [stats EXCEPT ![r] = a.stats]
                 /\ pc' = [pc EXCEPT ![r] = "RESPOND"]
                 /\ UNCHANGED response
  /\ UNCHANGED <<proc, auth, body, img_t1, img_t2, water, change, map_id, pixVars>>

\* stats.get('constant', {}): the default only when the key is missing
StatsGetConstant(st) ==
  IF st.has_constant THEN [none |-> st.is_none, hist |-> st.hist] ELSE [none |-> FALSE, hist |-> {}]

\* histogram, a local of the handler
HistogramGlobal(r) ==
  LET S == {q \in Req : pc[q] = "RESPOND"}
  IN StatsGetConstant(stats[CHOOSE q \in S : \A p \in S : p <= q])
Histogram(r) == StatsGetConstant(stats[r])

\* the returned dict
Success(url, histogram) ==
  [status |-> 200, period |-> 0, detail |-> "", tile_url |-> url,
   stats |-> [gain_sqkm_e6 |-> AreaE6(histogram, "1"),
              loss_sqkm_e6 |-> AreaE6(histogram, "2"),
              persistent_sqkm_e6 |-> AreaE6(histogram, "3")]]

\* histogram = stats.get('constant', {}) ... return {...}: histogram.get on None
\* raises AttributeError
Respond(r) ==
  /\ pc[r] = "RESPOND"
  /\ IF Histogram(r).none
       THEN Fail(r, OtherExc(MsgNoneHasNoGet))
       ELSE Finish(r, Success(map_id[r], Histogram(r).hist))
  /\ UNCHANGED <<proc, auth, body, img_t1, img_t2, water, change, map_id, stats, calls, answers, pixVars>>

Step(r) ==
  \/ Validate(r) \/ BuildGeometry(r) \/ FetchT1(r) \/ FetchT2(r) \/ CheckNoData(r)
  \/ Classify(r) \/ DetectChange(r) \/ Render(r) \/ Stats(r) \/ Respond(r)

Next == Startup \/ \E r \in Req : Receive(r) \/ Step(r)

Spec == Init /\ [][Next]_vars

\* ------------------------------------------- the change raster, per pixel
\* NDWI values of a pixel, in hundredths: below, at and above the threshold
NdwiValues == {-50, 0, 50}
\* the value of a pixel that selfMask() masks out
Masked == -1

\* image.gt(threshold): 1 where greater, else 0
Gt(x, t) == IF x > t THEN 1 ELSE 0
\* image.eq(v)
Eq(x, v) == IF x = v THEN 1 ELSE 0
\* a.And(b): 1 where both are nonzero
And(a, b) == IF a # 0 /\ b # 0 THEN 1 ELSE 0
\* input.where(test, value): value where test is nonzero, else input
Where(input, test, value) == IF test # 0 THEN value ELSE input
\* image.selfMask(): a pixel whose value is zero is masked
SelfMaskPx(v) == IF v = 0 THEN Masked ELSE v

\* classify_water(image, threshold) on one pixel
classify_water(ndwi, threshold) == Gt(ndwi, threshold)

\* the test of the k-th .where(...) of the change expression; its value is k
CondOverlap(k, w1, w2) ==
  CASE k = 1 -> And(Eq(w1, 0), Eq(w2, 1))
    [] k = 2 -> And(Eq(w1, 1), Eq(w2, 0))
    [] k = 3 -> Eq(w2, 1)
Cond(k, w1, w2) ==
  CASE k = 1 -> And(Eq(w1, 0), Eq(w2, 1))
    [] k = 2 -> And(Eq(w1, 1), Eq(w2, 0))
    [] k = 3 -> And(Eq(w1, 1), Eq(w2, 1))

\* the orders in which three rewrites can be applied; the code's is <<1, 2, 3>>
Orders == {o \in [1..3 -> Classes] : \A i, j \in 1..3 : i # j => o[i] # o[j]}

InitChange ==
  /\ proc = "starting"
  /\ auth = "none"
  /\ pc = [r \in Req |-> "IDLE"]
  /\ body = [r \in Req |-> NoBody]
  /\ img_t1 = [r \in Req |-> "unset"]
  /\ img_t2 = [r \in Req |-> "unset"]
  /\ water = [r \in Req |-> FALSE]
  /\ change = [r \in Req |-> FALSE]
  /\ map_id = [r \in Req |-> ""]
  /\ stats = [r \in Req |-> NoStats]
  /\ response = [r \in Req |-> NoResponse]
  /\ calls = [r \in Req |-> <<>>]
  /\ answers = [r \in Req |-> <<>>]
  /\ ndwi1 \in [Pixels -> NdwiValues]
  /\ ndwi2 \in [Pixels -> NdwiValues]
  /\ water_t1 = [p \in Pixels |-> 0]
  /\ water_t2 = [p \in Pixels |-> 0]
  /\ raster = [p \in Pixels |-> 0]
  /\ order \in Orders
  /\ stage = 0

\* water_t1 = classify_water(img_t1, 0.0); water_t2 = classify_water(img_t2, 0.0)
ClassifyPixels ==
  /\ stage = 0
  /\ water_t1' = [p \in Pixels |-> classify_water(ndwi1[p], Threshold)]
  /\ water_t2' = [p \in Pixels |-> classify_water(ndwi2[p], Threshold)]
  /\ stage' = 1
  /\ UNCHANGED <<proc, auth, reqVars, ndwi1, ndwi2, raster, order>>

\* one .where(test, k) applied to ee.Image(0) or to the result so far
ApplyWhere ==
  /\ stage \in 1..3
  /\ LET k == order[stage]
     IN raster' = [p \in Pixels |-> Where(raster[p], Cond(k, water_t1[p], water_t2[p]), k)]
  /\ stage' = stage + 1
  /\ UNCHANGED <<proc, auth, reqVars, ndwi1, ndwi2, water_t1, water_t2, order>>

\* .selfMask()
SelfMask ==
  /\ stage = 4
  /\ raster' = [p \in Pixels |-> SelfMaskPx(raster[p])]
  /\ stage' = 5
  /\ UNCHANGED <<proc, auth, reqVars, ndwi1, ndwi2, water_t1, water_t2, order>>

NextChange == ClassifyPixels \/ ApplyWhere \/ SelfMask

SpecChange == InitChange /\ [][NextChange]_vars

\* ================================================================ claims
Done(r) == pc[r] = "DONE"
\* the answers of the remote calls of r, in order (the Geometry entry left out)
IsRemote(a) == a.call # "Geometry"
RemoteAnswers(r) == SelectSeq(answers[r], IsRemote)
\* the collection-size query `call` of r returned zero images
SizeZero(r, call) ==
  \E i \in DOMAIN answers[r] :
    answers[r][i].call = call /\ answers[r][i].kind = "ok" /\ answers[r][i].count = 0
\* the remote call `call` of r returned without raising
ReturnedOk(r, call) ==
  \E i \in DOMAIN answers[r] : answers[r][i].call = call /\ answers[r][i].kind = "ok"
Issued(r, call) == \E i \in DOMAIN calls[r] : calls[r][i] = call
\* the body is malformed: a field missing or wrongly typed, or a geojson dict
\* that is no geometry
Malformed(b) == b # NoBody /\ (b.geojson # "Polygon" \/ b.dates # "strings")
CallOrder == <<"size_t1", "size_t2", "getMapId", "reduceRegion">>

\* C1: a request in which the size query of Period 1 or of Period 2 returned
\* zero images ends with the 404 of that period (Period 1 when Period 1 is
\* empty, otherwise Period 2) with that period's suggestion, and performs no
\* classification, change detection, tile rendering or statistics call.
C1_NoDataIs404 ==
  \A r \in Req :
    (Done(r) /\ (SizeZero(r, "size_t1") \/ SizeZero(r, "size_t2"))) =>
      /\ response[r] = (IF SizeZero(r, "size_t1") THEN NoDataT1 ELSE NoDataT2)
      /\ ~water[r] /\ ~change[r]
      /\ ~Issued(r, "getMapId") /\ ~Issued(r, "reduceRegion")

\* C2: when the Period 1 fetch returns the no-data sentinel, no Period 2
\* remote query is issued for that request.
C2_NoT2QueryAfterEmptyT1 ==
  \A r \in Req : SizeZero(r, "size_t1") => ~Issued(r, "size_t2")

\* C3: a request whose body is malformed issues no remote call at any point
\* of its execution, and never gets past geometry construction.
C3_MalformedNoRemoteCall ==
  \A r \in Req :
    Malformed(body[r]) =>
      /\ calls[r] = <<>>
      /\ pc[r] \in {"RECEIVED", "GEOMETRY", "DONE"}
C3_Witness ==
  \E r \in Req :
    /\ Done(r) /\ auth # "failed"
    /\ body[r].geojson = "Malformed" /\ body[r].dates = "strings"
    /\ calls[r] = <<>> /\ response[r].status # 0

\* C4: every request rejected for a malformed body, a malformed geometry
\* included, ends with a 4xx response and never with 500.
C4_MalformedIsClientError ==
  \A r \in Req :
    (Done(r) /\ Malformed(body[r])) => response[r].status \in 400..499

\* the pixel count of class key k in the statistics result st, 0 when absent
CountIn(st, k) ==
  IF st.has_constant /\ ~st.is_none /\ DictHas(st.hist, k)
    THEN (CHOOSE p \in st.hist : p[1] = k)[2] ELSE 0
StatsAnswer(r) == (CHOOSE i \in DOMAIN answers[r] : answers[r][i].call = "reduceRegion")

\* C5: when both fetches return a composite and the tile-URL and statistics
\* calls return without raising, the response is 200 and each of gain_sqkm,
\* loss_sqkm, persistent_sqkm is the returned pixel count of class 1, 2, 3
\* times 0.0001 (100 in units of 1e-6 km^2), 0 for a class that is absent.
C5_StatsAlways200 ==
  \A r \in Req :
    (/\ Done(r)
     /\ img_t1[r] = "composite" /\ img_t2[r] = "composite"
     /\ ReturnedOk(r, "getMapId") /\ ReturnedOk(r, "reduceRegion")) =>
      LET st == answers[r][StatsAnswer(r)].stats
      IN /\ response[r].status = 200
         /\ response[r].stats.gain_sqkm_e6 = CountIn(st, "1") * 100
         /\ response[r].stats.loss_sqkm_e6 = CountIn(st, "2") * 100
         /\ response[r].stats.persistent_sqkm_e6 = CountIn(st, "3") * 100

\* the outcome the change raster is to give a pixel with water values (a, b)
ChangeTable(a, b) ==
  CASE a = 0 /\ b = 1 -> 1
    [] a = 1 /\ b = 0 -> 2
    [] a = 1 /\ b = 1 -> 3
    [] a = 0 /\ b = 0 -> Masked

\* C6: for any two water masks, once classified every pixel satisfies at most
\* one of the three rewrite conditions, and after the three rewrites, applied
\* in any order, and selfMask it holds the outcome of its pair: (0,1) gain 1,
\* (1,0) loss 2, (1,1) persistent 3, (0,0) masked and not class 0.
C6_DisjointClasses ==
  stage >= 1 =>
    \A p \in Pixels :
      /\ water_t1[p] \in {0, 1} /\ water_t2[p] \in {0, 1}
      /\ Cardinality({k \in Classes : Cond(k, water_t1[p], water_t2[p]) # 0}) <= 1
      /\ stage = 5 => /\ raster[p] = ChangeTable(water_t1[p], water_t2[p])
                      /\ raster[p] # 0
C6_Witness ==
  /\ stage = 5
  /\ order = <<3, 1, 2>>
  /\ \E p, q \in Pixels :
       /\ water_t1[p] = 0 /\ water_t2[p] = 0 /\ raster[p] = Masked
       /\ water_t1[q] = 0 /\ water_t2[q] = 1 /\ raster[q] = 1

\* C7: an exception raised by geometry construction, by either fetch, by the
\* tile-URL request or by the statistics request ends the request with a 500
\* whose detail is that exception's message; a 404 raised by the no-data
\* tests reaches the client as that 404.
C7_ExceptionsTo500 ==
  \A r \in Req :
    Done(r) =>
      /\ \A i \in DOMAIN answers[r] :
           answers[r][i].kind = "raise" =>
             /\ response[r].status = 500
             /\ response[r].detail = answers[r][i].msg
      /\ ((\A i \in DOMAIN answers[r] : answers[r][i].kind = "ok")
          /\ (img_t1[r] = "None" \/ img_t2[r] = "None")) =>
             /\ response[r].status = 404
             /\ response[r] = (IF img_t1[r] = "None" THEN NoDataT1 ELSE NoDataT2)
C7_Witness ==
  \E r, q \in Req :
    /\ Done(r) /\ Issued(r, "reduceRegion")
    /\ response[r].status = 500 /\ response[r].detail \in RemoteErrors
    /\ Done(q) /\ response[q] = NoDataT2

\* C8: the remote calls of a request are a prefix of (fetch T1, fetch T2,
\* tile URL, statistics), so each is issued at most once, every call has
\* exactly one answer, and a call that raises is the last call of the request.
C8_SequentialNoRetry ==
  \A r \in Req :
    /\ Len(calls[r]) <= Len(CallOrder)
    /\ calls[r] = SubSeq(CallOrder, 1, Len(calls[r]))
    /\ Len(RemoteAnswers(r)) = Len(calls[r])
    /\ \A i \in DOMAIN calls[r] :
         /\ RemoteAnswers(r)[i].call = calls[r][i]
         /\ RemoteAnswers(r)[i].kind = "raise" => i = Len(calls[r]) /\ Done(r)
C8_Witness ==
  \E r, q \in Req :
    /\ Done(r) /\ calls[r] = CallOrder
    /\ Done(q) /\ Len(calls[q]) = 2 /\ RemoteAnswers(q)[2].kind = "raise"

\* C9: whatever the outcome of the startup authentication, the process is
\* never aborted and goes on to serve; after a failed authentication a request
\* in flight can always take its next step, and it ends with an HTTP response:
\* 422 for a body pydantic rejects, otherwise 500.
C9_AuthFailureNotFatal ==
  /\ proc # "crashed"
  /\ proc = "starting" => ENABLED Startup
  /\ auth # "none" => proc = "serving"
  /\ \A r \in Req :
       auth = "failed" =>
         /\ pc[r] \notin {"IDLE", "DONE"} => ENABLED Step(r)
         /\ Done(r) =>
              /\ response[r].status \in {422, 500}
              /\ response[r].status = 500 <=> AnalysisRequest(body[r])
C9_Witness ==
  \E r \in Req :
    /\ auth = "failed" /\ proc = "serving"
    /\ Done(r) /\ calls[r] = <<"size_t1">>
    /\ response[r] = Http(500, 0, MsgNotInitialized)

\* the response the code gives to body b when the library answers ans
ResponseFor(b, ans) ==
  LET raisedAt == {i \in DOMAIN ans : ans[i].kind = "raise"}
      st == ans[5].stats
  IN IF ~AnalysisRequest(b) THEN Http(422, 0, MsgValidation)
     ELSE IF raisedAt # {}
       THEN Http(500, 0, ans[CHOOSE i \in raisedAt : \A j \in raisedAt : i <= j].msg)
     ELSE IF ans[2].count = 0 THEN NoDataT1
     ELSE IF ans[3].count = 0 THEN NoDataT2
     ELSE IF st.has_constant /\ st.is_none THEN Http(500, 0, MsgNoneHasNoGet)
     ELSE Success(TileUrl, IF st.has_constant THEN st.hist ELSE {})

\* everything request r owns
Locals(r) ==
  <<pc[r], body[r], img_t1[r], img_t2[r], water[r], change[r], map_id[r], stats[r],
    response[r], calls[r], answers[r]>>

\* C10: under every interleaving of the steps of concurrent requests, the
\* response of a request is a function of its own body and of the answers to
\* its own calls, and a step of one request changes nothing another request
\* owns, nor the process-wide state.
C10_RequestsIsolated ==
  /\ [](\A r \in Req : Done(r) => response[r] = ResponseFor(body[r], answers[r]))
  /\ [][\A r \in Req :
          Locals(r)' # Locals(r) =>
            /\ \A q \in Req \ {r} : Locals(q)' = Locals(q)
            /\ UNCHANGED <<proc, auth>>]_vars
C10_Witness ==
  \E r, q \in Req :
    /\ r # q
    /\ Done(r) /\ response[r].status = 200
    /\ pc[q] = "RESPOND" /\ stats[q] # stats[r]
    /\ ~StatsGetConstant(stats[q]).none

====
